---- MODULE Spec2Model ----
(***************************************************************************)
(* Proximity run extraction over BED-style interval files.                 *)
(*                                                                         *)
(*   down.py  process_bed / main : run anchored at the first record        *)
(*   up.py    main               : run anchored at a target coordinate     *)
(*                                                                         *)
(* A file is a sequence of lines.  A line is a sequence of atoms: the two  *)
(* whitespace characters TAB and SP, and words (maximal runs of characters *)
(* that are not whitespace).  The line terminator is not represented; it   *)
(* is whitespace that str.strip() and str.split() always remove.           *)
(***************************************************************************)
EXTENDS Integers, Sequences, FiniteSets, TLC

VARIABLES mode, file, distance, coordinate, pc, result, stdout

vars == <<mode, file, distance, coordinate, pc, result, stdout>>

(***************************************************************************)
(* Bounds of the explored inputs.                                          *)
(***************************************************************************)
MaxLen == 3
MaxCoord == 2
MaxDist == 1

TAB == "\t"
SP == " "

IsSpace(a) == a \in {TAB, SP}

Max(a, b) == IF a >= b THEN a ELSE b

Abs(a) == IF a >= 0 THEN a ELSE 0 - a

(***************************************************************************)
(* Text primitives of the Python runtime used by both scripts.  A str is a *)
(* sequence of atoms.                                                      *)
(***************************************************************************)
\* str.strip(): remove leading and trailing whitespace.
RECURSIVE LStrip(_)
LStrip(s) == IF s # <<>> /\ IsSpace(Head(s)) THEN LStrip(Tail(s)) ELSE s

RECURSIVE RStrip(_)
RStrip(s) ==
    IF s # <<>> /\ IsSpace(s[Len(s)]) THEN RStrip(SubSeq(s, 1, Len(s) - 1))
    ELSE s

Strip(s) == RStrip(LStrip(s))

\* str.split('\t'): split on every TAB; n separators give n + 1 fields,
\* empty fields included.
RECURSIVE SplitOn(_, _, _)
SplitOn(s, sep, cur) ==
    IF s = <<>> THEN <<cur>>
    ELSE IF Head(s) = sep THEN <<cur>> \o SplitOn(Tail(s), sep, <<>>)
    ELSE SplitOn(Tail(s), sep, Append(cur, Head(s)))

SplitTab(s) == SplitOn(s, TAB, <<>>)

\* str.split(): split on runs of whitespace; no empty fields.
RECURSIVE SplitRuns(_, _)
SplitRuns(s, cur) ==
    IF s = <<>> THEN (IF cur = <<>> THEN <<>> ELSE <<cur>>)
    ELSE IF IsSpace(Head(s))
         THEN (IF cur = <<>> THEN <<>> ELSE <<cur>>) \o SplitRuns(Tail(s), <<>>)
    ELSE SplitRuns(Tail(s), Append(cur, Head(s)))

SplitWs(s) == SplitRuns(s, <<>>)

\* '\t'.join(fields)
RECURSIVE JoinTab(_)
JoinTab(fs) ==
    IF fs = <<>> THEN <<>>
    ELSE IF Len(fs) = 1 THEN Head(fs)
    ELSE Head(fs) \o <<TAB>> \o JoinTab(Tail(fs))

\* int(s): surrounding whitespace is ignored and what is left must be one
\* integer literal; anything else raises ValueError.
IntLiterals == 0 .. MaxCoord

IntCanParse(s) ==
    /\ Len(Strip(s)) = 1
    /\ \E n \in IntLiterals : ToString(n) = Strip(s)[1]

IntParse(s) == CHOOSE n \in IntLiterals : ToString(n) = Strip(s)[1]

(***************************************************************************)
(* down.py                                                                 *)
(***************************************************************************)
\* [line.strip() for line in f if line.strip()]
RECURSIVE DownReadLines(_)
DownReadLines(f) ==
    IF f = <<>> THEN <<>>
    ELSE IF Strip(Head(f)) # <<>>
         THEN <<Strip(Head(f))>> \o DownReadLines(Tail(f))
    ELSE DownReadLines(Tail(f))

\* Mutant: the distance is subtracted from the reach of the previous end.
DownChainsSubtracting(curr_start, prev_end, d) == curr_start <= prev_end - d

\* The proximity test of the loop: curr_start <= prev_end + distance.
DownChains(curr_start, prev_end, d) == curr_start <= prev_end + d

\* The first proximity check: the run is abandoned when start - 1 > distance.
DownAnchorNear(start, d) == ~(start - 1 > d)

\* Mutant: the first line is checked but not put in the output.
DownAnchorWindowEmpty(first_line, parts) ==
    [output |-> <<>>, prev_end |-> IntParse(parts[3]), stop |-> FALSE]

\* State of the scan after the first line was accepted.
DownAnchorWindow(first_line, parts) ==
    [output |-> <<first_line>>, prev_end |-> IntParse(parts[3]), stop |-> FALSE]

\* Mutant: a line that fails the proximity test is skipped (continue) and
\* the scan goes on.
DownLoopBodySkipping(w, line, d) ==
    LET parts == SplitTab(line) IN
    IF Len(parts) < 4 THEN w
    ELSE IF ~(IntCanParse(parts[2]) /\ IntCanParse(parts[3])) THEN w
    ELSE IF DownChains(IntParse(parts[2]), w.prev_end, d)
         THEN [output |-> Append(w.output, line),
               prev_end |-> IntParse(parts[3]),
               stop |-> FALSE]
    ELSE w

\* One iteration of "for line in lines[1:]"; stop records the break.
DownLoopBody(w, line, d) ==
    LET parts == SplitTab(line) IN
    IF Len(parts) < 4 THEN w
    ELSE IF ~(IntCanParse(parts[2]) /\ IntCanParse(parts[3])) THEN w
    ELSE IF DownChains(IntParse(parts[2]), w.prev_end, d)
         THEN [output |-> Append(w.output, line),
               prev_end |-> IntParse(parts[3]),
               stop |-> FALSE]
    ELSE [w EXCEPT !.stop = TRUE]

RECURSIVE DownLoop(_, _, _)
DownLoop(w, rest, d) ==
    IF rest = <<>> \/ w.stop THEN w
    ELSE DownLoop(DownLoopBody(w, Head(rest), d), Tail(rest), d)

\* process_bed(input_file, distance): what the call does, a returned list or
\* a ValueError that nothing catches.
Returned(v) == [status |-> "returned", value |-> v]

Raised == [status |-> "raised", value |-> <<>>]

process_bed(f, d) ==
    LET lines == DownReadLines(f) IN
    IF lines = <<>> THEN Returned(<<>>)
    ELSE LET first_line == lines[1]
             parts == SplitTab(first_line)
         IN IF Len(parts) < 4 THEN Returned(<<>>)
            ELSE IF ~IntCanParse(parts[2]) THEN Returned(<<>>)
            ELSE IF ~DownAnchorNear(IntParse(parts[2]), d) THEN Returned(<<>>)
            ELSE IF ~IntCanParse(parts[3]) THEN Raised
            ELSE Returned(DownLoop(DownAnchorWindow(first_line, parts),
                                   Tail(lines), d).output)

\* main() of down.py prints every line of the result; a ValueError ends the
\* process before anything is printed.
DownStdout(f, d) ==
    IF process_bed(f, d).status = "returned" THEN process_bed(f, d).value
    ELSE <<>>

(***************************************************************************)
(* up.py                                                                   *)
(***************************************************************************)
\* [line.strip().split() for line in f]
UpReadLines(f) == [i \in 1 .. Len(f) |-> SplitWs(Strip(f[i]))]

UpOverlap(curr_start, curr_end, prev_start, prev_end) ==
    curr_start < prev_end /\ curr_end > prev_start

\* Mutant: only the forward gap is measured.
UpGapForwardOnly(curr_start, curr_end, prev_start, prev_end) ==
    Max(0, curr_start - prev_end)

UpGap(curr_start, curr_end, prev_start, prev_end) ==
    IF curr_start >= prev_end THEN Max(0, curr_start - prev_end)
    ELSE Max(0, prev_start - curr_end)

\* Mutant: the threshold is off by one.
UpChainsOffByOne(curr_start, curr_end, prev_start, prev_end, d) ==
    \/ UpOverlap(curr_start, curr_end, prev_start, prev_end)
    \/ UpGap(curr_start, curr_end, prev_start, prev_end) - 1 <= d

UpChains(curr_start, curr_end, prev_start, prev_end, d) ==
    \/ UpOverlap(curr_start, curr_end, prev_start, prev_end)
    \/ UpGap(curr_start, curr_end, prev_start, prev_end) <= d

\* The coordinate proximity check: abandoned when |coordinate - end1| > distance.
UpAnchorNear(c, end1, d) == ~(Abs(c - end1) > d)

UpAnchorWindow(first_line) ==
    [output |-> <<first_line>>,
     chr1 |-> first_line[1],
     prev_start |-> IntParse(first_line[2]),
     prev_end |-> IntParse(first_line[3]),
     stop |-> FALSE]

\* Mutant: a line that fails the proximity test is skipped (continue) and
\* the scan goes on.
UpLoopBodySkipping(w, line, d) ==
    IF Len(line) < 4 THEN w
    ELSE IF line[1] # w.chr1 THEN [w EXCEPT !.stop = TRUE]
    ELSE IF ~(IntCanParse(line[2]) /\ IntCanParse(line[3])) THEN w
    ELSE IF UpChains(IntParse(line[2]), IntParse(line[3]),
                     w.prev_start, w.prev_end, d)
         THEN [w EXCEPT !.output = Append(w.output, line),
                        !.prev_start = IntParse(line[2]),
                        !.prev_end = IntParse(line[3])]
    ELSE w

\* Mutant: a line of another chromosome is skipped (continue) instead of
\* ending the scan.
UpLoopBodyChromSkipping(w, line, d) ==
    IF Len(line) < 4 THEN w
    ELSE IF line[1] # w.chr1 THEN w
    ELSE IF ~(IntCanParse(line[2]) /\ IntCanParse(line[3])) THEN w
    ELSE IF UpChains(IntParse(line[2]), IntParse(line[3]),
                     w.prev_start, w.prev_end, d)
         THEN [w EXCEPT !.output = Append(w.output, line),
                        !.prev_start = IntParse(line[2]),
                        !.prev_end = IntParse(line[3])]
    ELSE [w EXCEPT !.stop = TRUE]

\* One iteration of "for line in lines[1:]".
UpLoopBody(w, line, d) ==
    IF Len(line) < 4 THEN w
    ELSE IF line[1] # w.chr1 THEN [w EXCEPT !.stop = TRUE]
    ELSE IF ~(IntCanParse(line[2]) /\ IntCanParse(line[3])) THEN w
    ELSE IF UpChains(IntParse(line[2]), IntParse(line[3]),
                     w.prev_start, w.prev_end, d)
         THEN [w EXCEPT !.output = Append(w.output, line),
                        !.prev_start = IntParse(line[2]),
                        !.prev_end = IntParse(line[3])]
    ELSE [w EXCEPT !.stop = TRUE]

RECURSIVE UpLoop(_, _, _)
UpLoop(w, rest, d) ==
    IF rest = <<>> \/ w.stop THEN w
    ELSE UpLoop(UpLoopBody(w, Head(rest), d), Tail(rest), d)

\* The list "output" that main() of up.py builds; empty when it returns
\* before the loop.
UpOutput(f, c, d) ==
    LET lines == UpReadLines(f) IN
    IF lines = <<>> THEN <<>>
    ELSE LET first_line == lines[1] IN
         IF Len(first_line) < 4 THEN <<>>
         ELSE IF ~(IntCanParse(first_line[2]) /\ IntCanParse(first_line[3]))
              THEN <<>>
         ELSE IF ~UpAnchorNear(c, IntParse(first_line[3]), d) THEN <<>>
         ELSE UpLoop(UpAnchorWindow(first_line), Tail(lines), d).output

\* print '\t'.join(map(str, line)) for every line of output.
UpStdout(f, c, d) ==
    LET out == UpOutput(f, c, d) IN [i \in 1 .. Len(out) |-> JoinTab(out[i])]

(***************************************************************************)
(* The explored input files.                                               *)
(***************************************************************************)
Line4(c, s, e, x) == <<c, TAB, ToString(s), TAB, ToString(e), TAB, x>>

Coords == 0 .. MaxCoord

\* Well-formed four-column records of one chromosome, every interval with
\* start <= end over the coordinates, in any order in the file.
CoordLines ==
    UNION {{Line4("chr1", s, e, "a") : e \in s .. MaxCoord} : s \in Coords}

\* Well-formed records of two chromosomes.
ChromLines ==
    {Line4(c, s, s + 1, "a") : c \in {"chr1", "chr2"}, s \in 0 .. (MaxCoord - 1)}
    \cup {<<"chr2", TAB, "1", TAB, "1">>}

\* Blank lines, short lines, lines with unparsable coordinates, lines
\* separated by spaces, padded lines, among well-formed records.
MixedLines ==
    { <<>>, <<SP>>,
      <<"chr1", TAB, "1", TAB, "1">>,
      <<"chr1", TAB, "abc", TAB, "1", TAB, "d">>,
      <<"chr1", TAB, "1", TAB, "abc", TAB, "d">>,
      <<"chr2", TAB, "abc", TAB, "1", TAB, "d">>,
      <<"chr1", SP, "1", SP, "1", SP, "a">>,
      <<SP, "chr1", TAB, SP, "1", TAB, "2", TAB, "a", SP>>,
      Line4("chr1", 1, 1, "a"),
      Line4("chr1", 0, 1, "b") }

FilesOver(L) == UNION {[1 .. n -> L] : n \in 0 .. MaxLen}

Files == FilesOver(CoordLines) \cup FilesOver(ChromLines) \cup FilesOver(MixedLines)

(***************************************************************************)
(* The two programs as processes: one run of down.py or of up.py on a file *)
(* with its command-line arguments.                                        *)
(***************************************************************************)
Init ==
    /\ mode \in {"down", "up"}
    /\ file \in Files
    /\ distance \in 0 .. MaxDist
    /\ coordinate \in (IF mode = "up" THEN Coords ELSE {0})
    /\ pc = "start"
    /\ result = <<>>
    /\ stdout = <<>>

\* down.py main(), line 77: result = process_bed(args.input, args.distance)
DownProcessBed ==
    /\ mode = "down"
    /\ pc = "start"
    /\ pc' = process_bed(file, distance).status
    /\ result' = process_bed(file, distance).value
    /\ UNCHANGED <<mode, file, distance, coordinate, stdout>>

\* down.py main(), lines 80-81: print every line of result
DownPrint ==
    /\ mode = "down"
    /\ pc = "returned"
    /\ stdout' = result
    /\ pc' = "done"
    /\ UNCHANGED <<mode, file, distance, coordinate, result>>

\* up.py main()
UpMain ==
    /\ mode = "up"
    /\ pc = "start"
    /\ result' = UpOutput(file, coordinate, distance)
    /\ stdout' = UpStdout(file, coordinate, distance)
    /\ pc' = "done"
    /\ UNCHANGED <<mode, file, distance, coordinate>>

Next == DownProcessBed \/ DownPrint \/ UpMain

Spec == Init /\ [][Next]_vars

(***************************************************************************)
(* Vocabulary of the properties.  These definitions restate the            *)
(* specification's terms; they do not use the operators that model the     *)
(* scan.                                                                   *)
(***************************************************************************)
IsPrefix(a, b) == Len(a) <= Len(b) /\ \A i \in 1 .. Len(a) : a[i] = b[i]

Last(s) == s[Len(s)]

\* What a run prints, by mode.
RunStdout(m, f, c, d) == IF m = "down" THEN DownStdout(f, d) ELSE UpStdout(f, c, d)

\* A line is blank when it is empty or holds whitespace only.
IsBlank(line) == \A i \in 1 .. Len(line) : IsSpace(line[i])

\* The fields of a line as the mode reads them: tab-separated columns of the
\* trimmed line in FromFirstRecord mode, whitespace-separated words in
\* FromCoordinate mode.
FieldsOf(m, line) == IF m = "down" THEN SplitTab(Strip(line)) ELSE SplitWs(line)

\* The record a line stands for in the mode's result: the trimmed line, or
\* its list of fields.
RecordOf(m, line) == IF m = "down" THEN Strip(line) ELSE SplitWs(line)

IsInteger(s) == IntCanParse(s)

HasCoords(m, line) ==
    /\ Len(FieldsOf(m, line)) >= 4
    /\ IsInteger(FieldsOf(m, line)[2])
    /\ IsInteger(FieldsOf(m, line)[3])

ChromOf(m, line) == FieldsOf(m, line)[1]

StartOf(m, line) == IntParse(FieldsOf(m, line)[2])

EndOf(m, line) == IntParse(FieldsOf(m, line)[3])

\* A usable record: not blank, at least 4 fields, integer start and end.
ValidRecord(m, line) == ~IsBlank(line) /\ HasCoords(m, line)

\* A malformed record: not blank, but fewer than 4 fields or a start or end
\* that is no integer.
Malformed(m, line) == ~IsBlank(line) /\ ~HasCoords(m, line)

\* The anchor test of the specification.
SpecAnchorTest(m, line, c, d) ==
    IF m = "down" THEN StartOf(m, line) - 1 <= d
    ELSE Abs(c - EndOf(m, line)) <= d

\* The chaining predicate of the specification, candidate cur against the
\* previously accepted prv.
SpecOverlaps(m, prv, cur) ==
    StartOf(m, cur) < EndOf(m, prv) /\ EndOf(m, cur) > StartOf(m, prv)

SpecGap(m, prv, cur) ==
    LET g == IF StartOf(m, cur) >= EndOf(m, prv)
             THEN StartOf(m, cur) - EndOf(m, prv)
             ELSE StartOf(m, prv) - EndOf(m, cur)
    IN IF g < 0 THEN 0 ELSE g

SpecChains(m, prv, cur, d) ==
    IF m = "down" THEN StartOf(m, cur) <= EndOf(m, prv) + d
    ELSE SpecOverlaps(m, prv, cur) \/ SpecGap(m, prv, cur) <= d

\* cur lies strictly apart from prv: wholly before its start or wholly
\* after its end.
Apart(m, prv, cur) ==
    EndOf(m, cur) < StartOf(m, prv) \/ StartOf(m, cur) > EndOf(m, prv)

Proper(m, line) == StartOf(m, line) <= EndOf(m, line)

Prefix(f, n) == SubSeq(f, 1, n)

\* Index of the first line that is not blank (0 when there is none).
FirstRecordIdx(f) ==
    IF \E i \in 1 .. Len(f) : ~IsBlank(f[i])
    THEN CHOOSE i \in 1 .. Len(f) :
            ~IsBlank(f[i]) /\ \A j \in 1 .. (i - 1) : IsBlank(f[j])
    ELSE 0

\* The file without its blank lines.
RECURSIVE WithoutBlank(_)
WithoutBlank(f) ==
    IF f = <<>> THEN <<>>
    ELSE (IF IsBlank(Head(f)) THEN <<>> ELSE <<Head(f)>>)
         \o WithoutBlank(Tail(f))

\* The file without the malformed records that follow the anchor record
\* (the first line that is not blank).
RECURSIVE DropMalformedFrom(_, _, _)
DropMalformedFrom(m, f, i) ==
    IF i > Len(f) THEN <<>>
    ELSE (IF Malformed(m, f[i]) THEN <<>> ELSE <<f[i]>>)
         \o DropMalformedFrom(m, f, i + 1)

WithoutMalformed(m, f) ==
    IF FirstRecordIdx(f) = 0 THEN f
    ELSE Prefix(f, FirstRecordIdx(f)) \o DropMalformedFrom(m, f, FirstRecordIdx(f) + 1)

Finished == pc = "done"

\* The records of the input, in order, as the mode's result would show them.
InputRecords(m, f) == [i \in 1 .. Len(f) |-> RecordOf(m, f[i])]

\* The records printed, read back the same way.
PrintedRecords(m, out) == [i \in 1 .. Len(out) |-> RecordOf(m, out[i])]

AllValid(m, f) == \A i \in 1 .. Len(f) : ValidRecord(m, f[i])

(***************************************************************************)
(* Properties                                                              *)
(***************************************************************************)

\* C1: on a valid input (every line a usable record) the printed records are
\* exactly the first k input records, in input order, for some k <= the
\* input's length, in both modes and for every distance.
ResultIsPrefixOfInput ==
    (Finished /\ AllValid(mode, file)) =>
        IsPrefix(PrintedRecords(mode, stdout), InputRecords(mode, file))

\* C1 witness: a valid input of which a proper, non-empty prefix is printed.
PrefixWitness ==
    /\ Finished
    /\ AllValid(mode, file)
    /\ Len(stdout) >= 2
    /\ Len(stdout) < Len(file)

\* C2: running the extractor on what it printed, with the same parameters,
\* prints exactly the same again.
Idempotent ==
    Finished =>
        /\ RunStdout(mode, stdout, coordinate, distance) = stdout
        /\ mode = "down" => process_bed(stdout, distance) = Returned(stdout)

\* C2 witness: a run that dropped part of its input and printed two records
\* or more.
IdempotentWitness ==
    /\ Finished
    /\ Len(stdout) >= 2
    /\ Len(stdout) < Len(file)
    /\ mode = "up"

\* C3: for distances d1 <= d2 on the same input (and target), what is
\* printed with d1 is a prefix of what is printed with d2.
MonotoneInDistance ==
    Finished =>
        \A d2 \in distance .. MaxDist :
            IsPrefix(stdout, RunStdout(mode, file, coordinate, d2))

\* C3 witness: a larger distance extends a non-empty run.
MonotoneWitness ==
    /\ Finished
    /\ stdout # <<>>
    /\ \E d2 \in distance .. MaxDist :
          Len(RunStdout(mode, file, coordinate, d2)) > Len(stdout)

\* C4 as claimed: with distance 0, in both modes, no record accepted after
\* the anchor lies strictly apart, on either side, from the record accepted
\* before it.
ZeroDistanceNeverApart ==
    (Finished /\ distance = 0) =>
        \A k \in 1 .. (Len(stdout) - 1) :
            ~Apart(mode, stdout[k], stdout[k + 1])

\* C4 amended: with distance 0, a record accepted in FromCoordinate mode
\* starts exactly at the previous end, or starts before the previous end and
\* ends at or after the previous start (so it is never apart from the
\* previous record when both have start <= end); a record accepted in
\* FromFirstRecord mode never starts after the previous end, and is not
\* apart from the previous record when it has start <= end and does not
\* start before the previous start.
ZeroDistanceAbutsOrOverlaps ==
    (Finished /\ distance = 0) =>
        \A k \in 1 .. (Len(stdout) - 1) :
            LET prv == stdout[k]
                cur == stdout[k + 1]
            IN /\ mode = "up" =>
                    /\ \/ StartOf(mode, cur) = EndOf(mode, prv)
                       \/ /\ StartOf(mode, cur) < EndOf(mode, prv)
                          /\ EndOf(mode, cur) >= StartOf(mode, prv)
                    /\ (Proper(mode, prv) /\ Proper(mode, cur)) =>
                           ~Apart(mode, prv, cur)
               /\ mode = "down" =>
                    /\ StartOf(mode, cur) <= EndOf(mode, prv)
                    /\ (/\ Proper(mode, cur)
                        /\ StartOf(mode, cur) >= StartOf(mode, prv)) =>
                           ~Apart(mode, prv, cur)

\* C4 witness: with distance 0, FromFirstRecord mode accepted a record that
\* lies wholly before the previous one.
ZeroDistanceWitness ==
    /\ Finished
    /\ distance = 0
    /\ mode = "down"
    /\ Len(stdout) >= 2
    /\ EndOf(mode, stdout[2]) < StartOf(mode, stdout[1])

\* C5 as claimed: in both modes the result equals the result on the same
\* input with every malformed record after the anchor removed.
MalformedRecordsAreTransparent ==
    Finished =>
        stdout = RunStdout(mode, WithoutMalformed(mode, file), coordinate, distance)

\* C6 as claimed: no run ends in an uncaught error, and a run whose input is
\* empty or whose first record is short, has a non-integer start or end, or
\* fails the anchor test finishes with an empty result.
AnchorFailureIsEmptyResult ==
    /\ pc # "raised"
    /\ (/\ Finished
        /\ \/ FirstRecordIdx(file) = 0
           \/ ~HasCoords(mode, file[FirstRecordIdx(file)])
           \/ ~SpecAnchorTest(mode, file[FirstRecordIdx(file)], coordinate, distance))
       => stdout = <<>>

\* C7 as claimed: in both modes the result equals the result on the same
\* input with all blank lines removed.
BlankLinesAreDiscarded ==
    /\ Finished =>
          stdout = RunStdout(mode, WithoutBlank(file), coordinate, distance)
    /\ pc = "raised" => process_bed(WithoutBlank(file), distance) = Raised

\* C8: once a usable record fails the chaining predicate against the last
\* accepted record, the result is final: it is what the scan had accepted
\* before that record, whatever follows.
StopAtFirstBreak ==
    Finished =>
        \A j \in 2 .. Len(file) :
            LET before == RunStdout(mode, Prefix(file, j - 1), coordinate, distance)
            IN (/\ before # <<>>
                /\ ValidRecord(mode, file[j])
                /\ ~SpecChains(mode, Last(before), file[j], distance))
               => stdout = before

\* C8 witness: after the record that broke the chain comes a record that
\* chains with the last accepted one, and it is not accepted.
StopAtFirstBreakWitness ==
    /\ Finished
    /\ \E j \in 2 .. Len(file) :
          LET before == RunStdout(mode, Prefix(file, j - 1), coordinate, distance)
          IN /\ before # <<>>
             /\ ValidRecord(mode, file[j])
             /\ ChromOf(mode, file[j]) = ChromOf(mode, Last(before))
             /\ ~SpecChains(mode, Last(before), file[j], distance)
             /\ \E n \in (j + 1) .. Len(file) :
                   /\ ValidRecord(mode, file[n])
                   /\ ChromOf(mode, file[n]) = ChromOf(mode, Last(before))
                   /\ SpecChains(mode, Last(before), file[n], distance)

\* C9 as claimed: in FromCoordinate mode the scan ends at the first record
\* after the anchor whose chromosome differs from the anchor's, so nothing
\* positioned after a chromosome change is accepted.
StopAtChromosomeChange ==
    (Finished /\ mode = "up" /\ stdout # <<>>) =>
        \A j \in 2 .. Len(file) :
            (~IsBlank(file[j]) /\ ChromOf(mode, file[j]) # ChromOf(mode, file[1]))
            => stdout = RunStdout(mode, Prefix(file, j - 1), coordinate, distance)

\* C9 amended: in FromCoordinate mode the scan ends at the first record
\* after the anchor that has at least 4 fields and a chromosome different
\* from the anchor's (a record with fewer than 4 fields is skipped whatever
\* its chromosome); every accepted record carries the anchor's chromosome
\* and nothing positioned after such a record is accepted.
StopAtChromosomeChangeOfFullRecord ==
    (Finished /\ mode = "up" /\ stdout # <<>>) =>
        /\ \A k \in 1 .. Len(stdout) :
              ChromOf(mode, stdout[k]) = ChromOf(mode, file[1])
        /\ \A j \in 2 .. Len(file) :
              (/\ Len(FieldsOf(mode, file[j])) >= 4
               /\ ChromOf(mode, file[j]) # ChromOf(mode, file[1]))
              => stdout = RunStdout(mode, Prefix(file, j - 1), coordinate, distance)

\* C9 witness: a record of the anchor's chromosome that chains with the last
\* accepted record follows a four-field record of another chromosome, and is
\* not accepted.
ChromosomeChangeWitness ==
    /\ Finished
    /\ mode = "up"
    /\ stdout # <<>>
    /\ \E j \in 2 .. Len(file) :
          /\ Len(FieldsOf(mode, file[j])) >= 4
          /\ ChromOf(mode, file[j]) # ChromOf(mode, file[1])
          /\ \E n \in (j + 1) .. Len(file) :
                /\ ValidRecord(mode, file[n])
                /\ ChromOf(mode, file[n]) = ChromOf(mode, file[1])
                /\ SpecChains(mode, Last(stdout), file[n], distance)

\* C10: in a non-empty result the first record is the first input record
\* and passes the mode's anchor test, and every record after it satisfies
\* the mode's chaining predicate against the record before it.
ChainInvariant ==
    (Finished /\ stdout # <<>>) =>
        /\ FirstRecordIdx(file) # 0
        /\ RecordOf(mode, stdout[1]) = RecordOf(mode, file[FirstRecordIdx(file)])
        /\ ValidRecord(mode, stdout[1])
        /\ SpecAnchorTest(mode, stdout[1], coordinate, distance)
        /\ \A k \in 1 .. (Len(stdout) - 1) :
              /\ ValidRecord(mode, stdout[k + 1])
              /\ SpecChains(mode, stdout[k], stdout[k + 1], distance)

\* C10 witness: a chain of three records.
ChainWitness ==
    /\ Finished
    /\ Len(stdout) >= 3
    /\ mode = "up"
    /\ distance > 0

====
